---- MODULE Spec2Model ----
(***************************************************************************)
(* Model of dirdiff (src/src/main.rs): comparison of two directory trees   *)
(* per immediate subdirectory, with an optional content check.             *)
(*                                                                         *)
(* A path is a sequence of components; a component is a natural number     *)
(* (component 1 sorts before component 2, as the names "a" < "b" would).   *)
(* A filesystem is a function from paths (relative to the side's root      *)
(* argument, <<>> being the root itself) to nodes.  The filesystems are    *)
(* snapshots: they do not change while the program runs.                   *)
(***************************************************************************)
EXTENDS Naturals, Integers, Sequences, FiniteSets, TLC

VARIABLES
  fsA,         \* the tree under DIRECTORY_A
  fsB,         \* the tree under DIRECTORY_B
  check_hash,  \* the --hash flag
  pc,          \* where the program is
  subdirs,     \* main's sorted vector of subdirectory names
  idx,         \* position of main's loop in subdirs
  out,         \* what was printed, one record per subdirectory
  visited,     \* <<side, path>> of every path collect_files classified
  calls,       \* file operations of the content check, in order
  croot,       \* the argument of a collect_files call run on its own
  cst          \* the loop state of that call

vars == <<fsA, fsB, check_hash, pc, subdirs, idx, out, visited, calls, croot, cst>>

(* ---------------------------- bounds ----------------------------------- *)
(* the longest file content explored, in bytes *)
MaxSize == 1

Bytes == {0, 1}

(* read buffer of hash_file *)
BufSize == 8192

(* ---------------------------- nodes ------------------------------------ *)
None == [kind |-> "none", readable |-> FALSE, content |-> <<>>, access |-> "ok"]
DirR == [kind |-> "dir", readable |-> TRUE, content |-> <<>>, access |-> "ok"]
DirU == [kind |-> "dir", readable |-> FALSE, content |-> <<>>, access |-> "ok"]
File(c, a) == [kind |-> "file", readable |-> FALSE, content |-> c, access |-> a]
File0 == File(<<0>>, "ok")

Contents == UNION {[1..n -> Bytes] : n \in 0..MaxSize}

FileAttrs == {File(c, "ok") : c \in Contents}
             \cup {File(<<0>>, a) : a \in {"noopen", "noread"}}

(* ---------------------------- paths ------------------------------------ *)
IsPrefix(p, q) == Len(p) <= Len(q) /\ SubSeq(q, 1, Len(p)) = p

Parent(p) == SubSeq(p, 1, Len(p) - 1)

(* Path::join *)
Join(p, rel) == p \o rel

(* Path::strip_prefix *)
StripPrefix(p, root) ==
  IF IsPrefix(root, p)
    THEN [ok |-> TRUE, rel |-> SubSeq(p, Len(root) + 1, Len(p))]
    ELSE [ok |-> FALSE, rel |-> <<>>]

(* Ord of PathBuf: component-wise lexicographic comparison *)
RECURSIVE PathLess(_, _)
PathLess(p, q) ==
  IF q = <<>> THEN FALSE
  ELSE IF p = <<>> THEN TRUE
  ELSE IF Head(p) # Head(q) THEN Head(p) < Head(q)
  ELSE PathLess(Tail(p), Tail(q))

(* slice::sort on a Vec<PathBuf>: insertion into an ascending sequence *)
RECURSIVE Insert(_, _)
Insert(x, s) ==
  IF s = <<>> THEN <<x>>
  ELSE IF PathLess(Head(s), x) THEN <<Head(s)>> \o Insert(x, Tail(s))
  ELSE <<x>> \o s

SortOmitted(s) == s

RECURSIVE Sort(_)
Sort(s) == IF s = <<>> THEN <<>> ELSE Insert(Head(s), Sort(Tail(s)))

Range(s) == {s[k] : k \in 1..Len(s)}

(* the iteration orders a HashSet / a directory listing may produce *)
Perms(S) == {f \in [1..Cardinality(S) -> S] : \A x \in S : \E k \in DOMAIN f : f[k] = x}

(* ---------------------------- filesystem ------------------------------- *)
NodeAt(fs, p) == IF p \in DOMAIN fs THEN fs[p] ELSE None

(* Path::is_dir, Path::is_file *)
IsDir(fs, p) == NodeAt(fs, p).kind = "dir"
IsFile(fs, p) == NodeAt(fs, p).kind = "file"

(* entries a successful fs::read_dir yields *)
Entries(fs, p) ==
  {q \in DOMAIN fs : Len(q) = Len(p) + 1 /\ IsPrefix(p, q) /\ fs[q].kind # "none"}

(* fs::read_dir succeeds on a readable directory *)
ReadDirOk(fs, p) == IsDir(fs, p) /\ NodeAt(fs, p).readable

(* a tree: every existing node other than <<>> lies in a directory *)
ValidTree(fs) ==
  \A p \in DOMAIN fs :
    (p # <<>> /\ fs[p].kind # "none") => NodeAt(fs, Parent(p)).kind = "dir"

(* ---------------------------- collect_files --------------------------- *)
(* the state of the work-list loop: the stack, the files found, and the    *)
(* paths the loop popped (and so classified with is_dir / is_file)         *)
CollectStart(root) == [stack |-> <<root>>, files |-> {}, seen |-> {}]

(* one iteration of `while let Some(current) = stack.pop()`; ord is the    *)
(* order in which read_dir yields the entries of current                   *)
CollectStepFailsOnUnreadable(fs, root, st, ord) ==
  LET current == st.stack[Len(st.stack)]
      rest == SubSeq(st.stack, 1, Len(st.stack) - 1)
      seen == st.seen \cup {current}
  IN  IF IsDir(fs, current)
        THEN IF ReadDirOk(fs, current)
               THEN [stack |-> rest \o ord, files |-> st.files, seen |-> seen]
               ELSE [stack |-> <<>>, files |-> {}, seen |-> seen]
      ELSE IF IsFile(fs, current) /\ StripPrefix(current, root).ok
        THEN [stack |-> rest,
              files |-> st.files \cup {StripPrefix(current, root).rel},
              seen |-> seen]
      ELSE [stack |-> rest, files |-> st.files, seen |-> seen]

CollectStep(fs, root, st, ord) ==
  LET current == st.stack[Len(st.stack)]
      rest == SubSeq(st.stack, 1, Len(st.stack) - 1)
      seen == st.seen \cup {current}
  IN  IF IsDir(fs, current)
        THEN IF ReadDirOk(fs, current)
               THEN [stack |-> rest \o ord, files |-> st.files, seen |-> seen]
               ELSE [stack |-> rest, files |-> st.files, seen |-> seen]
      ELSE IF IsFile(fs, current)
        THEN IF StripPrefix(current, root).ok
               THEN [stack |-> rest,
                     files |-> st.files \cup {StripPrefix(current, root).rel},
                     seen |-> seen]
               ELSE [stack |-> rest, files |-> st.files, seen |-> seen]
      ELSE [stack |-> rest, files |-> st.files, seen |-> seen]

(* one listing order of a directory, for the runs that are not about it *)
SomeOrder(fs, p) == Sort(CHOOSE f \in Perms(Entries(fs, p)) : TRUE)

RECURSIVE CollectLoop(_, _, _)
CollectLoop(fs, root, st) ==
  IF st.stack = <<>> THEN st
  ELSE CollectLoop(fs, root,
         CollectStep(fs, root, st, SomeOrder(fs, st.stack[Len(st.stack)])))

(* collect_files(root): the set returned and the paths visited *)
collect_files(fs, root) == CollectLoop(fs, root, CollectStart(root))

(* ---------------------------- direct_subdirs -------------------------- *)
direct_subdirs_and_root(fs, root) ==
  IF ReadDirOk(fs, root)
    THEN {StripPrefix(q, root).rel :
            q \in {e \in Entries(fs, root) \cup {root} :
                     IsDir(fs, e) /\ StripPrefix(e, root).ok}}
    ELSE {}

direct_subdirs(fs, root) ==
  IF ReadDirOk(fs, root)
    THEN {StripPrefix(q, root).rel :
            q \in {e \in Entries(fs, root) : IsDir(fs, e) /\ StripPrefix(e, root).ok}}
    ELSE {}

(* ---------------------------- hash_file ------------------------------- *)
(* Sha256 is modelled by an injective fold over the bytes fed to it: the   *)
(* hasher state is the number whose binary digits are a leading 1 followed *)
(* by the bytes absorbed so far, so that a digest identifies the byte      *)
(* string whatever the chunking (collisions are ignored).                  *)
Sha256New == 1

RECURSIVE ByteVal(_)
ByteVal(c) == IF c = <<>> THEN 0 ELSE ByteVal(SubSeq(c, 1, Len(c) - 1)) * 2 + c[Len(c)]

Sha256Update(h, chunk) == h * (2 ^ Len(chunk)) + ByteVal(chunk)

Min(a, b) == IF a < b THEN a ELSE b

(* the loop of hash_file: file.read(&mut buf) returns at most BufSize bytes *)
RECURSIVE ReadLoop(_, _)
ReadLoop(data, hasher) ==
  LET n == Min(Len(data), BufSize)
  IN  IF n = 0 THEN hasher
      ELSE ReadLoop(SubSeq(data, n + 1, Len(data)),
                    Sha256Update(hasher, SubSeq(data, 1, n)))

Ev(op, side, p) == [op |-> op, side |-> side, path |-> p]

(* hash_file(path): [ok, digest, err, ev], ev the file operations performed *)
hash_file(fs, side, p) ==
  LET nd == NodeAt(fs, p)
  IN  IF nd.kind # "file" \/ nd.access = "noopen"
        THEN [ok |-> FALSE, digest |-> 0, err |-> "open",
              ev |-> <<Ev("open_failed", side, p)>>]
      ELSE IF nd.access = "noread"
        THEN [ok |-> FALSE, digest |-> 0, err |-> "read",
              ev |-> <<Ev("open", side, p), Ev("read_failed", side, p)>>]
      ELSE [ok |-> TRUE, digest |-> ReadLoop(nd.content, Sha256New), err |-> "",
            ev |-> <<Ev("open", side, p), Ev("read", side, p)>>]

(* fs::metadata(path): [ok, len] *)
Metadata(fs, p) ==
  LET nd == NodeAt(fs, p)
  IN  IF nd.kind = "none" THEN [ok |-> FALSE, len |-> 0]
      ELSE [ok |-> TRUE, len |-> Len(nd.content)]

(* ---------------------------- contents_differ ------------------------- *)
(* line 76: ma.len() != mb.len() *)
SizesDifferNever(la, lb) == la # la
SizesDiffer(la, lb) == la # lb

(* line 79: hash_file(a)? != hash_file(b)? *)
DigestsDifferInverted(da, db) == da = db
DigestsDiffer(da, db) == da # db

(* res is "differs" (Ok(true)), "same" (Ok(false)) or "error" (Err)        *)
contents_differ(fa, fb, a, b) ==
  LET ma == Metadata(fa, a)
      mb == Metadata(fb, b)
      ha == hash_file(fa, "A", a)
      hb == hash_file(fb, "B", b)
  IN  IF ~ma.ok
        THEN [res |-> "error", err |-> "metadata", ev |-> <<Ev("metadata_failed", "A", a)>>]
      ELSE IF ~mb.ok
        THEN [res |-> "error", err |-> "metadata",
              ev |-> <<Ev("metadata", "A", a), Ev("metadata_failed", "B", b)>>]
      ELSE LET mev == <<Ev("metadata", "A", a), Ev("metadata", "B", b)>>
           IN  IF SizesDiffer(ma.len, mb.len)
                 THEN [res |-> "differs", err |-> "", ev |-> mev]
               ELSE IF ~ha.ok
                 THEN [res |-> "error", err |-> ha.err, ev |-> mev \o ha.ev]
               ELSE IF ~hb.ok
                 THEN [res |-> "error", err |-> hb.err, ev |-> mev \o ha.ev \o hb.ev]
               ELSE [res |-> IF DigestsDiffer(ha.digest, hb.digest) THEN "differs" ELSE "same",
                     err |-> "", ev |-> mev \o ha.ev \o hb.ev]

(* ---------------------------- print_diff ------------------------------ *)
(* HashSet::difference, HashSet::intersection *)
DifferenceSymmetric(X, Y) == (X \ Y) \cup (Y \ X)
Difference(X, Y) == X \ Y
Intersection(X, Y) == X \cap Y

(* lines 103-107: the match on the checker's result *)
AccumulateErrAsChanged(acc, rel, r, ev) ==
  IF r.res = "same"
    THEN [changed |-> acc.changed, errored |-> acc.errored, ev |-> ev]
    ELSE [changed |-> Append(acc.changed, rel), errored |-> acc.errored, ev |-> ev]

Accumulate(acc, rel, r, ev) ==
  IF r.res = "differs"
    THEN [changed |-> Append(acc.changed, rel), errored |-> acc.errored, ev |-> ev]
  ELSE IF r.res = "same"
    THEN [changed |-> acc.changed, errored |-> acc.errored, ev |-> ev]
  ELSE [changed |-> acc.changed,
        errored |-> Append(acc.errored, [path |-> rel, err |-> r.err]),
        ev |-> ev]

(* the loop over the sorted common paths: [changed, errored, ev] *)
RECURSIVE CheckLoopStopsAtError(_, _, _, _, _, _)
CheckLoopStopsAtError(fa, fb, dir_a, dir_b, common, acc) ==
  IF common = <<>> THEN acc
  ELSE LET rel == Head(common)
           pa == Join(dir_a, rel)
           pb == Join(dir_b, rel)
           r == contents_differ(fa, fb, pa, pb)
           ev == acc.ev \o <<[op |-> "check", side |-> "AB", path |-> pa]>> \o r.ev
       IN  IF r.res = "error" THEN Accumulate(acc, rel, r, ev)
           ELSE CheckLoopStopsAtError(fa, fb, dir_a, dir_b, Tail(common),
                                      Accumulate(acc, rel, r, ev))

RECURSIVE CheckLoop(_, _, _, _, _, _)
CheckLoop(fa, fb, dir_a, dir_b, common, acc) ==
  IF common = <<>> THEN acc
  ELSE LET rel == Head(common)
           pa == Join(dir_a, rel)
           pb == Join(dir_b, rel)
           r == contents_differ(fa, fb, pa, pb)
           ev == acc.ev \o <<[op |-> "check", side |-> "AB", path |-> pa]>> \o r.ev
       IN  CheckLoop(fa, fb, dir_a, dir_b, Tail(common), Accumulate(acc, rel, r, ev))

(* lines 94-109: changed and errored, filled only with check_hash *)
CheckedAlways(fa, fb, dir_a, dir_b, hash, ordC) ==
  CheckLoop(fa, fb, dir_a, dir_b, Sort(ordC),
            [changed |-> <<>>, errored |-> <<>>, ev |-> <<>>])

Checked(fa, fb, dir_a, dir_b, hash, ordC) ==
  IF hash
    THEN CheckLoop(fa, fb, dir_a, dir_b, Sort(ordC),
                   [changed |-> <<>>, errored |-> <<>>, ev |-> <<>>])
    ELSE [changed |-> <<>>, errored |-> <<>>, ev |-> <<>>]

(* lines 111-119: whether the green "identical" line is printed *)
IsIdentical(hash, missing_in_a, missing_in_b, changed, errored) ==
  LET only_structure_equal == missing_in_a = <<>> /\ missing_in_b = <<>>
  IN  IF ~hash THEN only_structure_equal
      ELSE only_structure_equal /\ changed = <<>> /\ errored = <<>>

(* print_diff(dir_a, dir_b, check_hash); ordB, ordA, ordC are the orders in *)
(* which the difference and intersection iterators yield their elements.   *)
(* The result holds the locals files_a and files_b and what is printed:    *)
(* identical is the green line, the four sequences are the lists (changed  *)
(* and errored are printed only with check_hash, and are empty without).   *)
print_diff(fa, fb, dir_a, dir_b, hash, ordB, ordA, ordC) ==
  LET ca == collect_files(fa, dir_a)
      cb == collect_files(fb, dir_b)
      missing_in_b == Sort(ordB)
      missing_in_a == Sort(ordA)
      chk == Checked(fa, fb, dir_a, dir_b, hash, ordC)
      identical == IsIdentical(hash, missing_in_a, missing_in_b, chk.changed, chk.errored)
  IN  [kind |-> "Compared", identical |-> identical,
       files_a |-> ca.files, files_b |-> cb.files,
       missing_in_b |-> missing_in_b, missing_in_a |-> missing_in_a,
       changed |-> chk.changed, errored |-> chk.errored]

(* lines 205-207: the subdirectory is reported as missing on the other side *)
OnlyIn(side) == [kind |-> side, identical |-> FALSE,
                 files_a |-> {}, files_b |-> {},
                 missing_in_b |-> <<>>, missing_in_a |-> <<>>,
                 changed |-> <<>>, errored |-> <<>>]

(* ---------------------------- the trees explored ---------------------- *)
(* all trees over the paths of ps (parents first) with the nodes allowed   *)
RECURSIVE Build(_, _)
Build(ps, allowed) ==
  IF ps = <<>> THEN {<<>>}
  ELSE LET p == ps[Len(ps)]
       IN  {Append(t, n) : t \in Build(SubSeq(ps, 1, Len(ps) - 1), allowed),
                           n \in allowed[p]}

TreeOf(ps, t) == [p \in Range(ps) |-> t[CHOOSE k \in 1..Len(ps) : ps[k] = p]]

Trees(ps, allowed) ==
  {fs \in {TreeOf(ps, t) : t \in Build(ps, allowed)} : ValidTree(fs)}

MainPaths == << <<>>, <<1>>, <<2>>, <<1, 1>>, <<1, 2>>, <<1, 1, 1>> >>

MainAllowed ==
  [p \in Range(MainPaths) |->
     CASE p = <<>> -> {DirR}
       [] p = <<1>> -> {None, DirR}
       [] p = <<2>> -> {File0, DirR}
       [] p = <<1, 1>> -> {None, DirR, DirU, File0, File(<<1>>, "ok"), File(<<0>>, "noopen")}
       [] p = <<1, 2>> -> {None} \cup FileAttrs
       [] OTHER -> {None, File0}]

(* a root argument that does not exist *)
NoTree == [p \in {<<>>} |-> None]

MainTrees == Trees(MainPaths, MainAllowed) \cup {NoTree}

CollectPaths ==
  << <<>>, <<1>>, <<1, 1>>, <<1, 2>>, <<1, 1, 1>>, <<1, 1, 2>>, <<1, 2, 1>> >>

CollectAllowed ==
  [p \in Range(CollectPaths) |->
     CASE p = <<>> -> {DirR}
       [] Len(p) = 3 -> {None, File0, DirR}
       [] OTHER -> {None, File0, DirR, DirU}]

CollectTrees == Trees(CollectPaths, CollectAllowed)

(* ---------------------------- main ------------------------------------- *)
dir_a == <<>>
dir_b == <<>>

Init ==
  /\ fsA \in MainTrees
  /\ fsB \in MainTrees
  /\ check_hash \in BOOLEAN
  /\ pc = "start"
  /\ subdirs = <<>>
  /\ idx = 0
  /\ out = <<>>
  /\ visited = {}
  /\ calls = <<>>
  /\ croot = <<>>
  /\ cst = [stack |-> <<>>, files |-> {}, seen |-> {}]

(* main, lines 179-182: both arguments must be directories *)
Reject ==
  /\ pc = "start"
  /\ ~IsDir(fsA, dir_a) \/ ~IsDir(fsB, dir_b)
  /\ pc' = "exit1"
  /\ UNCHANGED <<fsA, fsB, check_hash, subdirs, idx, out, visited, calls, croot, cst>>

(* main, lines 184-194: the union of the direct subdirectories, sorted *)
Start ==
  /\ pc = "start"
  /\ IsDir(fsA, dir_a) /\ IsDir(fsB, dir_b)
  /\ \E ord \in Perms(direct_subdirs(fsA, dir_a) \cup direct_subdirs(fsB, dir_b)) :
       subdirs' = Sort(ord)
  /\ idx' = 1
  /\ pc' = "loop"
  /\ UNCHANGED <<fsA, fsB, check_hash, out, visited, calls, croot, cst>>

Tag(side, S) == {<<side, p>> : p \in S}

(* lines 203-208: the match on (path_a.is_dir(), path_b.is_dir()) *)
DispatchDescends(a_is_dir, b_is_dir) ==
  IF a_is_dir \/ b_is_dir THEN "Compared" ELSE "Neither"

Dispatch(a_is_dir, b_is_dir) ==
  IF a_is_dir /\ b_is_dir THEN "Compared"
  ELSE IF a_is_dir THEN "OnlyInA"
  ELSE IF b_is_dir THEN "OnlyInB"
  ELSE "Neither"

(* main, lines 196-209: one iteration of the loop over subdirs *)
Iterate ==
  /\ pc = "loop"
  /\ idx <= Len(subdirs)
  /\ LET sub == subdirs[idx]
         path_a == Join(dir_a, sub)
         path_b == Join(dir_b, sub)
         arm == Dispatch(IsDir(fsA, path_a), IsDir(fsB, path_b))
     IN  IF arm = "Compared"
           THEN LET ca == collect_files(fsA, path_a)
                    cb == collect_files(fsB, path_b)
                IN  \E ordB \in Perms(Difference(ca.files, cb.files)),
                       ordA \in Perms(Difference(cb.files, ca.files)),
                       ordC \in Perms(Intersection(ca.files, cb.files)) :
                      LET r == print_diff(fsA, fsB, path_a, path_b, check_hash,
                                          ordB, ordA, ordC)
                      IN  /\ out' = Append(out, [sub |-> sub, res |-> r])
                          /\ visited' = visited \cup Tag("A", ca.seen) \cup Tag("B", cb.seen)
                          /\ calls' = calls \o Checked(fsA, fsB, path_a, path_b,
                                                       check_hash, ordC).ev
         ELSE /\ out' = Append(out, [sub |-> sub, res |-> OnlyIn(arm)])
              /\ UNCHANGED <<visited, calls>>
  /\ idx' = idx + 1
  /\ UNCHANGED <<fsA, fsB, check_hash, pc, subdirs, croot, cst>>

(* main, line 211 *)
Finish ==
  /\ pc = "loop"
  /\ idx > Len(subdirs)
  /\ pc' = "done"
  /\ UNCHANGED <<fsA, fsB, check_hash, subdirs, idx, out, visited, calls, croot, cst>>

Next == Reject \/ Start \/ Iterate \/ Finish

Spec == Init /\ [][Next]_vars

(* ---------------------------- collect_files on its own ---------------- *)
CollectInit ==
  /\ fsA \in CollectTrees
  /\ fsB = NoTree
  /\ check_hash = FALSE
  /\ pc = "collect"
  /\ subdirs = <<>>
  /\ idx = 0
  /\ out = <<>>
  /\ visited = {}
  /\ calls = <<>>
  /\ croot \in {<<1>>, <<1, 1>>}
  /\ cst = CollectStart(croot)

(* line 21-33: one iteration, the directory listed in any order *)
CollectPop ==
  /\ pc = "collect"
  /\ cst.stack # <<>>
  /\ \E ord \in Perms(Entries(fsA, cst.stack[Len(cst.stack)])) :
       cst' = CollectStep(fsA, croot, cst, ord)
  /\ UNCHANGED <<fsA, fsB, check_hash, pc, subdirs, idx, out, visited, calls, croot>>

(* line 35: the stack is empty, files is returned *)
CollectReturn ==
  /\ pc = "collect"
  /\ cst.stack = <<>>
  /\ pc' = "collected"
  /\ UNCHANGED <<fsA, fsB, check_hash, subdirs, idx, out, visited, calls, croot, cst>>

CollectNext == CollectPop \/ CollectReturn

CollectSpec == CollectInit /\ [][CollectNext]_vars /\ WF_vars(CollectNext)

(* ====================== properties ==================================== *)
(* the set a walk of root should return: the files below root (root        *)
(* itself included) all of whose ancestors from root on are readable       *)
(* directories, relative to root                                           *)
ReachableFiles(fs, root) ==
  {SubSeq(q, Len(root) + 1, Len(q)) :
     q \in {p \in DOMAIN fs :
              /\ IsPrefix(root, p)
              /\ fs[p].kind = "file"
              /\ \A k \in Len(root)..(Len(p) - 1) : ReadDirOk(fs, SubSeq(p, 1, k))}}

PathSetA(k) == out[k].res.files_a
PathSetB(k) == out[k].res.files_b
CommonOf(k) == PathSetA(k) \cap PathSetB(k)

ComparedEntries == {k \in 1..Len(out) : out[k].res.kind = "Compared"}

RootNames == {p \in DOMAIN fsA \cup DOMAIN fsB : Len(p) = 1}
BothDirs(p) == IsDir(fsA, p) /\ IsDir(fsB, p)
OneDir(p) == IsDir(fsA, p) # IsDir(fsB, p)

ErroredPaths(k) == {out[k].res.errored[j].path : j \in 1..Len(out[k].res.errored)}
ChangedPaths(k) == Range(out[k].res.changed)

NoDuplicates(s) == \A a, b \in 1..Len(s) : s[a] = s[b] => a = b

(* C1: for every subdirectory that is a directory on both sides, with FA and FB the
   PathSets collect_files builds for it, missing_in_b is exactly FA \ FB and
   missing_in_a exactly FB \ FA, nothing omitted, added or duplicated; when FA is a
   strict superset of FB, missing_in_a is empty and missing_in_b is FA \ FB. *)
C1_MissingAreDifferences ==
  /\ \A k \in ComparedEntries :
       LET FA == PathSetA(k)
           FB == PathSetB(k)
           mb == out[k].res.missing_in_b
           ma == out[k].res.missing_in_a
       IN  /\ Range(mb) = FA \ FB /\ NoDuplicates(mb)
           /\ Range(ma) = FB \ FA /\ NoDuplicates(ma)
           /\ (FB \subseteq FA /\ FB # FA) => (ma = <<>> /\ Range(mb) = FA \ FB)
  /\ pc = "done" =>
       \A p \in RootNames : BothDirs(p) => \E k \in ComparedEntries : out[k].sub = p

C1_Witness ==
  \E k \in ComparedEntries :
    /\ PathSetB(k) # {}
    /\ PathSetB(k) \subseteq PathSetA(k)
    /\ PathSetB(k) # PathSetA(k)
    /\ Len(out[k].res.missing_in_b) >= 1

Unreadable(fs, p) == NodeAt(fs, p).access # "ok"
SizeOf(fs, p) == Len(NodeAt(fs, p).content)

(* the common pairs the content check has handled: <<k, rel>> *)
CheckedPairs ==
  {kr \in UNION {{<<k, rel>> : rel \in CommonOf(k)} : k \in ComparedEntries} : check_hash}

PairPath(kr) == Join(out[kr[1]].sub, kr[2])

(* C2 as stated: if either file of a common pair cannot be opened or read, the pair
   is reported in errored and never in changed, whatever the two sizes are and
   whichever side is unreadable. *)
C2_UnreadableAlwaysErrored ==
  \A kr \in CheckedPairs :
    (Unreadable(fsA, PairPath(kr)) \/ Unreadable(fsB, PairPath(kr))) =>
      /\ kr[2] \in ErroredPaths(kr[1])
      /\ kr[2] \notin ChangedPaths(kr[1])

(* C2, amended: if either file of a common pair cannot be opened or read and the two
   metadata sizes are equal, the pair is reported in errored, never in changed and
   never as identical, whichever side is unreadable; if the sizes differ the pair is
   reported in changed and not in errored, because no file is opened. *)
C2_UnreadableErroredWhenSizesEqual ==
  \A kr \in CheckedPairs :
    (Unreadable(fsA, PairPath(kr)) \/ Unreadable(fsB, PairPath(kr))) =>
      IF SizeOf(fsA, PairPath(kr)) = SizeOf(fsB, PairPath(kr))
        THEN /\ kr[2] \in ErroredPaths(kr[1])
             /\ kr[2] \notin ChangedPaths(kr[1])
             /\ ~out[kr[1]].res.identical
        ELSE /\ kr[2] \in ChangedPaths(kr[1])
             /\ kr[2] \notin ErroredPaths(kr[1])

C2_Witness ==
  \E kr \in CheckedPairs :
    /\ Unreadable(fsB, PairPath(kr))
    /\ ~Unreadable(fsA, PairPath(kr))
    /\ SizeOf(fsA, PairPath(kr)) = SizeOf(fsB, PairPath(kr))
    /\ kr[2] \in ErroredPaths(kr[1])

(* every matched subdirectory has the same files on both sides, all of them
   readable and with the same contents *)
TreesAgree ==
  \A p \in RootNames : BothDirs(p) =>
    /\ ReachableFiles(fsA, p) = ReachableFiles(fsB, p)
    /\ \A rel \in ReachableFiles(fsA, p) :
         /\ ~Unreadable(fsA, Join(p, rel)) /\ ~Unreadable(fsB, Join(p, rel))
         /\ NodeAt(fsA, Join(p, rel)).content = NodeAt(fsB, Join(p, rel)).content

(* C3: when every matched subdirectory has the same file set on both sides and every
   common file has identical contents (all readable), every matched subdirectory is
   reported Identical, with and without verification, and nothing is listed as
   missing, changed or errored. *)
C3_IdenticalTreesReportIdentical ==
  TreesAgree =>
    /\ \A k \in ComparedEntries :
         /\ out[k].res.identical
         /\ out[k].res.missing_in_a = <<>> /\ out[k].res.missing_in_b = <<>>
         /\ out[k].res.changed = <<>> /\ out[k].res.errored = <<>>
    /\ pc = "done" =>
         \A p \in RootNames : BothDirs(p) => \E k \in ComparedEntries : out[k].sub = p

C3_Witness ==
  /\ TreesAgree
  /\ check_hash
  /\ pc = "done"
  /\ \E k \in ComparedEntries : Cardinality(PathSetA(k)) = 2 /\ out[k].res.identical

FileOps == {"open", "open_failed", "read", "read_failed"}

(* C4: when the metadata sizes of a common pair differ, the pair is classified
   "differs" and neither file is opened or read; a file is opened only after both
   sizes were read and found equal. *)
C4_SizeFilterBeforeOpen ==
  /\ \A kr \in CheckedPairs :
       SizeOf(fsA, PairPath(kr)) # SizeOf(fsB, PairPath(kr)) =>
         /\ kr[2] \in ChangedPaths(kr[1])
         /\ kr[2] \notin ErroredPaths(kr[1])
         /\ \A i \in 1..Len(calls) :
              calls[i].path = PairPath(kr) => calls[i].op \notin FileOps
  /\ \A i \in 1..Len(calls) :
       calls[i].op \in FileOps =>
         /\ \E j \in 1..(i - 1) : calls[j] = Ev("metadata", "A", calls[i].path)
         /\ \E j \in 1..(i - 1) : calls[j] = Ev("metadata", "B", calls[i].path)
         /\ SizeOf(fsA, calls[i].path) = SizeOf(fsB, calls[i].path)

C4_Witness ==
  \E kr \in CheckedPairs :
    /\ SizeOf(fsA, PairPath(kr)) # SizeOf(fsB, PairPath(kr))
    /\ kr[2] \in ChangedPaths(kr[1])
    /\ \E i \in 1..Len(calls) : calls[i] = Ev("metadata", "B", PairPath(kr))
    /\ \E i \in 1..Len(calls) : calls[i].op = "open"

ListsOf(k) ==
  Range(out[k].res.missing_in_a) \cup Range(out[k].res.missing_in_b)
    \cup ChangedPaths(k) \cup ErroredPaths(k)

(* C5: a name that is a directory on exactly one side gets an OnlyIn result naming
   that side; nothing beneath it is enumerated by collect_files or content-checked,
   and no path under it is listed as missing, changed or errored. *)
C5_OneSidedNotDescended ==
  /\ \A k \in 1..Len(out) :
       OneDir(out[k].sub) =>
         /\ out[k].res.kind = (IF IsDir(fsA, out[k].sub) THEN "OnlyInA" ELSE "OnlyInB")
         /\ ListsOf(k) = {}
  /\ \A p \in RootNames :
       OneDir(p) =>
         /\ \A v \in visited : ~IsPrefix(p, v[2])
         /\ \A i \in 1..Len(calls) : ~IsPrefix(p, calls[i].path)
         /\ pc = "done" => \E k \in 1..Len(out) : out[k].sub = p

C5_Witness ==
  /\ pc = "done"
  /\ \E k \in 1..Len(out) :
       /\ out[k].res.kind = "OnlyInA"
       /\ ReachableFiles(fsA, out[k].sub) # {}
  /\ \E k \in ComparedEntries : PathSetA(k) = {}

CountChecks(p) == Cardinality({i \in 1..Len(calls) : calls[i].op = "check" /\ calls[i].path = p})

(* C6: with verification on, a comparison error aborts neither the subdirectory's
   comparison nor the run: every path in the intersection of the two PathSets is
   passed to the checker exactly once and ends in exactly one of changed, errored
   or (identical) neither, and every subdirectory of the sorted union is processed. *)
C6_ErrorsDoNotAbort ==
  /\ \A kr \in CheckedPairs :
       /\ CountChecks(PairPath(kr)) = 1
       /\ ~(kr[2] \in ChangedPaths(kr[1]) /\ kr[2] \in ErroredPaths(kr[1]))
  /\ \A k \in ComparedEntries :
       /\ NoDuplicates(out[k].res.changed) /\ NoDuplicates(out[k].res.errored)
       /\ ChangedPaths(k) \cup ErroredPaths(k) \subseteq CommonOf(k)
  /\ pc = "done" =>
       /\ Len(out) = Len(subdirs)
       /\ \A p \in RootNames :
            (IsDir(fsA, p) \/ IsDir(fsB, p)) => \E k \in 1..Len(out) : out[k].sub = p

C6_Witness ==
  /\ pc = "done"
  /\ check_hash
  /\ Len(out) = 2
  /\ out[1].res.errored # <<>>
  /\ out[1].res.errored[1].path = <<1>>
  /\ <<2>> \in ChangedPaths(1)
  /\ out[2].res.kind = "Compared"

RootLevelFiles(fs) == {p \in DOMAIN fs : Len(p) = 1 /\ IsFile(fs, p)}

(* C7: a file directly under a root is never enumerated into a PathSet, never
   reported as missing and never content-checked, with verification on or off. *)
C7_RootLevelFilesIgnored ==
  /\ \A p \in RootLevelFiles(fsA) : <<"A", p>> \notin visited
  /\ \A p \in RootLevelFiles(fsB) : <<"B", p>> \notin visited
  /\ \A p \in RootLevelFiles(fsA) \cup RootLevelFiles(fsB) :
       /\ \A i \in 1..Len(calls) : calls[i].path # p
       /\ \A k \in 1..Len(out) : \A rel \in ListsOf(k) : Join(out[k].sub, rel) # p

C7_Witness ==
  /\ pc = "done"
  /\ check_hash
  /\ RootLevelFiles(fsA) # {}
  /\ RootLevelFiles(fsB) = {}
  /\ calls # <<>>
  /\ \E k \in ComparedEntries : out[k].res.missing_in_a # <<>>

StrictlyAscending(s) == \A a, b \in 1..Len(s) : a < b => PathLess(s[a], s[b])

(* the one ascending enumeration of a finite set of paths *)
Ascending(S) == CHOOSE s \in Perms(S) : StrictlyAscending(s)

DirNames(fs) == {p \in DOMAIN fs : Len(p) = 1 /\ IsDir(fs, p)}

(* what the content check of a common pair returns *)
Verdict(k, rel) ==
  contents_differ(fsA, fsB, Join(out[k].sub, rel), Join(out[k].sub, rel)).res

(* C8: the output order is deterministic: the subdirectories are processed in
   ascending order of name, and missing_in_b, missing_in_a, changed and errored are
   each emitted in ascending order of relative path, so that the sequence of results
   is determined by the two trees and the flag, whatever order the directory
   listings and the hash sets iterate in. *)
C8_OutputOrderDeterministic ==
  /\ pc # "start" /\ pc # "exit1" =>
       subdirs = Ascending(DirNames(fsA) \cup DirNames(fsB))
  /\ Len(out) <= Len(subdirs)
  /\ \A k \in 1..Len(out) : out[k].sub = subdirs[k]
  /\ \A k \in ComparedEntries :
       /\ out[k].res.missing_in_b = Ascending(PathSetA(k) \ PathSetB(k))
       /\ out[k].res.missing_in_a = Ascending(PathSetB(k) \ PathSetA(k))
       /\ out[k].res.changed =
            Ascending({rel \in CommonOf(k) : check_hash /\ Verdict(k, rel) = "differs"})
       /\ [j \in 1..Len(out[k].res.errored) |-> out[k].res.errored[j].path] =
            Ascending({rel \in CommonOf(k) : check_hash /\ Verdict(k, rel) = "error"})

C8_Witness ==
  /\ pc = "done"
  /\ Len(subdirs) = 2
  /\ \E k \in ComparedEntries :
       /\ Len(out[k].res.errored) = 2
       /\ out[k].res.missing_in_b = <<>>
  /\ \E k \in ComparedEntries : out[k].res.identical

(* C9: with verification off the content check is never invoked (no metadata read,
   no file opened), changed and errored stay empty for every subdirectory, and a
   matched subdirectory is reported Identical exactly when its two PathSets are
   equal, even if common files differ in content. *)
C9_NoVerificationNoContentCheck ==
  ~check_hash =>
    /\ calls = <<>>
    /\ \A k \in ComparedEntries :
         /\ out[k].res.changed = <<>>
         /\ out[k].res.errored = <<>>
         /\ out[k].res.identical <=> (PathSetA(k) = PathSetB(k))

C9_Witness ==
  /\ ~check_hash
  /\ \E k \in ComparedEntries :
       /\ out[k].res.identical
       /\ \E rel \in CommonOf(k) : Verdict(k, rel) = "differs"
       /\ \E rel \in CommonOf(k) : Verdict(k, rel) = "error"

(* C10: on every finite tree the work-list loop of collect_files terminates and
   returns exactly the root-relative paths of the regular files reachable from the
   root through readable directories: no directory is a member, an unreadable
   directory contributes nothing without stopping the walk of its siblings, and a
   nonexistent or unreadable root yields the empty set. *)
C10_CollectTerminatesWithReachableFiles ==
  /\ <>(pc = "collected")
  /\ [](pc = "collected" =>
          /\ cst.files = ReachableFiles(fsA, croot)
          /\ \A rel \in cst.files : ~IsDir(fsA, Join(croot, rel))
          /\ ~ReadDirOk(fsA, croot) /\ ~IsFile(fsA, croot) => cst.files = {})

C10_Witness ==
  /\ pc = "collected"
  /\ croot = <<1>>
  /\ fsA[<<1, 1>>] = DirU
  /\ fsA[<<1, 1, 1>>] = File0
  /\ fsA[<<1, 2>>] = DirR
  /\ cst.files = {<<2, 1>>}

====
